---- MODULE Spec2Model ----
(***************************************************************************)
(* Model of src/myDB.py: class DB, an in-memory key-value store with       *)
(* nested transactions (a stack of snapshots, xcts) and a reverse index    *)
(* (a stack of value counts, valueCounts), driven one command line at a    *)
(* time by performCommand.                                                 *)
(*                                                                         *)
(* A Python dict is modelled as a TLA+ function whose DOMAIN is the set of *)
(* keys present in the dict; `k in d` is `k \in DOMAIN d`.  Python's None  *)
(* is the string None below, which is not a member of Vals.  The dicts of  *)
(* one stack are distinct objects (begin and commit push dict.copy()), and *)
(* their values are immutable strings and ints, so a layer is modelled by  *)
(* its contents and currXct/currValCount by the index of the layer they    *)
(* alias.                                                                  *)
(***************************************************************************)
EXTENDS Integers, Sequences, FiniteSets, TLC

\* ------------------------------------------------------------------ bounds
Keys == {"a", "b"}
Vals == {"10", "20"}
MaxDepth == 3
MaxWrites == 4

\* --------------------------------------------------------------- constants
None == "None"
SET == "SET"
GET == "GET"
UNSET == "UNSET"
NUMEQUALTO == "NUMEQUALTO"
END == "END"
BEGIN == "BEGIN"
ROLLBACK == "ROLLBACK"
COMMIT == "COMMIT"
NoTransactionMsg == "NO TRANSACTION"
InvalidMsg == "Invalid command. Try again."

VARIABLES
  xcts,          \* self.xcts: list of snapshots, committed one first
  valueCounts,   \* self.valueCounts: list of count indexes
  inTransac,     \* self.inTransac
  currXct,       \* self.currXct: index in xcts of the dict it aliases, 0 if none
  currValCount,  \* self.currValCount: likewise for valueCounts
  line,          \* the command line last handed to performCommand
  out,           \* the lines that command wrote to stdout
  pc,            \* "running", "crashed" (uncaught exception) or "exited"
  pre,           \* history: xcts, valueCounts, inTransac before that command
  begun,         \* history: some BEGIN has been performed
  noTxRollbacks, \* history: consecutive ROLLBACKs that wrote NO TRANSACTION
  txn,           \* history: the last BEGIN followed only by SET and UNSET
  brRun,         \* history: the current run of BEGIN and ROLLBACK commands
  writes,        \* history: number of SET and UNSET commands performed
  assigned       \* history: per open transaction, the value last given to each key

vars == <<xcts, valueCounts, inTransac, currXct, currValCount, line, out, pc,
          pre, begun, noTxRollbacks, txn, brRun, writes, assigned>>

\* ---------------------------------------------------------------- dicts
EmptyDict == <<>>

Put(d, k, v) == [x \in (DOMAIN d) \cup {k} |-> IF x = k THEN v ELSE d[x]]

Copy(d) == [x \in DOMAIN d |-> d[x]]

SetAt(stack, i, d) == [stack EXCEPT ![i] = d]

Front(s) == SubSeq(s, 1, Len(s) - 1)

Digit(n) == <<"0", "1", "2", "3", "4", "5", "6", "7", "8", "9">>[n + 1]

RECURSIVE StrNat(_)
StrNat(n) == IF n < 10 THEN Digit(n) ELSE StrNat(n \div 10) \o Digit(n % 10)

Str(n) == IF n < 0 THEN "-" \o StrNat(0 - n) ELSE StrNat(n)

\* ------------------------------------------------------- DB.performCommand
\* lines 230-235: which layer currXct and currValCount alias for a command
CurrIndexMutant(inT, stack) == 1

CurrIndex(inT, stack) == IF ~inT THEN 1 ELSE Len(stack)

\* xcts[0] and xcts[-1] raise IndexError on an empty list
DispatchFaults(stack) == stack = <<>>

Cmd(op, name, value) == [op |-> op, name |-> name, value |-> value]

\* ------------------------------------------------------------------ DB.set
\* line 79 without the test oldVal != value
SetDecrementsOldMutant(xct, cnt, name, value) ==
  /\ name \in DOMAIN xct
  /\ xct[name] \in DOMAIN cnt

SetDecrementsOld(xct, cnt, name, value) ==
  /\ name \in DOMAIN xct
  /\ xct[name] # value
  /\ xct[name] \in DOMAIN cnt

\* lines 84-87 with the count always set to 1
SetCountMutant(xct, cnt, name, value) ==
  LET c1 == IF SetDecrementsOld(xct, cnt, name, value)
            THEN Put(cnt, xct[name], cnt[xct[name]] - 1)
            ELSE cnt
  IN Put(c1, value, 1)

SetCount(xct, cnt, name, value) ==
  LET c1 == IF SetDecrementsOld(xct, cnt, name, value)
            THEN Put(cnt, xct[name], cnt[xct[name]] - 1)
            ELSE cnt
  IN IF value \in DOMAIN c1
     THEN Put(c1, value, c1[value] + 1)
     ELSE Put(c1, value, 1)

SetXct(xct, name, value) == Put(xct, name, value)

\* ------------------------------------------------------------------ DB.get
GetOutput(xct, name) ==
  LET value == IF name \in DOMAIN xct THEN xct[name] ELSE None
  IN IF value = None THEN <<"NULL">> ELSE <<value>>

\* ----------------------------------------------------------- DB.numEqualTo
NumEqualToOutput(cnt, value) ==
  IF value \in DOMAIN cnt THEN <<Str(cnt[value])>> ELSE <<Str(0)>>

\* ---------------------------------------------------------------- DB.unset
UnsetKeyError(xct, name) == name \notin DOMAIN xct

UnsetCountKeyError(xct, cnt, name) ==
  /\ xct[name] # None
  /\ xct[name] \notin DOMAIN cnt

UnsetXct(xct, name) == Put(xct, name, None)

\* lines 120-121 without the decrement
UnsetCountMutant(xct, cnt, name) == cnt

UnsetCount(xct, cnt, name) ==
  IF xct[name] # None THEN Put(cnt, xct[name], cnt[xct[name]] - 1) ELSE cnt

\* ---------------------------------------------------------------- DB.begin
\* lines 159-160: push a copy of the top snapshot
BeginXcts(stack) == Append(stack, Copy(stack[Len(stack)]))

\* lines 162-163 left out: the count stack is not pushed
BeginCountsMutant(stack) == stack

\* lines 162-163: push a copy of the top count index
BeginCounts(stack) == Append(stack, Copy(stack[Len(stack)]))

\* ------------------------------------------------------------- DB.rollback
RollbackOutputMutant(inT) == IF inT THEN <<NoTransactionMsg>> ELSE <<>>

RollbackOutput(inT) == IF ~inT THEN <<NoTransactionMsg>> ELSE <<>>

\* line 183: self.xcts.pop()
RollbackXctsMutant(stack) == Tail(stack)

RollbackXcts(stack) == Front(stack)

\* line 184: self.valueCounts.pop()
RollbackCountsMutant(stack) == stack

RollbackCounts(stack) == Front(stack)

\* line 185: `if not self.xcts`, evaluated on the list after the pop
NoMoreTransactions(stack) == stack = <<>>

\* --------------------------------------------------------------- DB.commit
CommitOutput(inT) == IF ~inT THEN <<NoTransactionMsg>> ELSE <<>>

\* lines 205-206: the new one-element list holding a copy of the current dict
CommitStackMutant(stack, i) == <<Copy(stack[1])>>

CommitStack(stack, i) == <<Copy(stack[i])>>

\* ------------------------------------------------------------------ history
Snapshot == [xcts |-> xcts, valueCounts |-> valueCounts, inTransac |-> inTransac]

NoTxn == [status |-> "none", touched |-> FALSE, before |-> <<>>]

NoRun == [status |-> "none", depth |-> 0, pairs |-> 0, before |-> <<>>]

Min(a, b) == IF a < b THEN a ELSE b

\* op is the command performed, "FAULT" when it raised an exception
Hist(op) ==
  /\ pre' = Snapshot
  /\ begun' = (begun \/ op = BEGIN)
  /\ noTxRollbacks' = IF op = ROLLBACK /\ out' = <<NoTransactionMsg>>
                      THEN Min(noTxRollbacks + 1, 2) ELSE 0
  /\ writes' = IF op \in {SET, UNSET} THEN writes + 1 ELSE writes
  /\ txn' = CASE op = BEGIN ->
                   [status |-> "open", touched |-> FALSE, before |-> Snapshot]
              [] op \in {SET, UNSET} /\ txn.status = "open" ->
                   [txn EXCEPT !.touched = TRUE]
              [] op = ROLLBACK /\ txn.status = "open" ->
                   [txn EXCEPT !.status = "rolledback"]
              [] OTHER -> NoTxn
  /\ brRun' = CASE op = BEGIN /\ brRun.status = "none" ->
                     [status |-> "running", depth |-> 1, pairs |-> 0,
                      before |-> Snapshot]
                [] op = BEGIN /\ brRun.status = "running" ->
                     [brRun EXCEPT !.depth = @ + 1]
                [] op = ROLLBACK /\ brRun.status = "running" /\ brRun.depth > 0 ->
                     [brRun EXCEPT !.depth = @ - 1, !.pairs = Min(@ + 1, 2)]
                [] OTHER -> NoRun
  /\ assigned' =
       CASE op = SET ->
              [assigned EXCEPT ![Len(assigned)][line'.name] = line'.value]
         [] op = UNSET ->
              [assigned EXCEPT ![Len(assigned)][line'.name] = None]
         [] op = BEGIN -> Append(assigned, assigned[Len(assigned)])
         [] op = ROLLBACK /\ Len(assigned) > 1 -> Front(assigned)
         [] op = COMMIT -> <<assigned[Len(assigned)]>>
         [] OTHER -> assigned

Crash(cmd) ==
  /\ line' = cmd
  /\ out' = <<>>
  /\ pc' = "crashed"
  /\ UNCHANGED <<xcts, valueCounts, inTransac, currXct, currValCount>>
  /\ Hist("FAULT")

Init ==
  /\ xcts = <<EmptyDict>>
  /\ valueCounts = <<EmptyDict>>
  /\ inTransac = FALSE
  /\ currXct = 0
  /\ currValCount = 0
  /\ line = Cmd("", "", "")
  /\ out = <<>>
  /\ pc = "running"
  /\ pre = [xcts |-> <<EmptyDict>>, valueCounts |-> <<EmptyDict>>, inTransac |-> FALSE]
  /\ begun = FALSE
  /\ noTxRollbacks = 0
  /\ txn = NoTxn
  /\ brRun = NoRun
  /\ writes = 0
  /\ assigned = <<[k \in Keys |-> None]>>

\* --------------------------------------------------------------- commands
Set(name, value) ==
  /\ pc = "running"
  /\ writes < MaxWrites
  /\ IF DispatchFaults(xcts) THEN Crash(Cmd(SET, name, value)) ELSE
     LET i == CurrIndex(inTransac, xcts)
         xct == xcts[i]
         cnt == valueCounts[i]
     IN /\ xcts' = SetAt(xcts, i, SetXct(xct, name, value))
        /\ valueCounts' = SetAt(valueCounts, i, SetCount(xct, cnt, name, value))
        /\ currXct' = i
        /\ currValCount' = i
        /\ line' = Cmd(SET, name, value)
        /\ out' = <<>>
        /\ UNCHANGED <<inTransac, pc>>
        /\ Hist(SET)

\* get as if line 100 read self.currXct.setdefault(name)
GetMutant(name) ==
  /\ pc = "running"
  /\ IF DispatchFaults(xcts) THEN Crash(Cmd(GET, name, "")) ELSE
     LET i == CurrIndex(inTransac, xcts)
     IN /\ currXct' = i
        /\ currValCount' = i
        /\ line' = Cmd(GET, name, "")
        /\ out' = GetOutput(xcts[i], name)
        /\ xcts' = IF name \in DOMAIN xcts[i] THEN xcts
                   ELSE SetAt(xcts, i, Put(xcts[i], name, None))
        /\ UNCHANGED <<valueCounts, inTransac, pc>>
        /\ Hist(GET)

Get(name) ==
  /\ pc = "running"
  /\ IF DispatchFaults(xcts) THEN Crash(Cmd(GET, name, "")) ELSE
     LET i == CurrIndex(inTransac, xcts)
     IN /\ currXct' = i
        /\ currValCount' = i
        /\ line' = Cmd(GET, name, "")
        /\ out' = GetOutput(xcts[i], name)
        /\ UNCHANGED <<xcts, valueCounts, inTransac, pc>>
        /\ Hist(GET)

Unset(name) ==
  /\ pc = "running"
  /\ writes < MaxWrites
  /\ IF DispatchFaults(xcts) THEN Crash(Cmd(UNSET, name, "")) ELSE
     LET i == CurrIndex(inTransac, xcts)
         xct == xcts[i]
         cnt == valueCounts[i]
     IN /\ currXct' = i
        /\ currValCount' = i
        /\ line' = Cmd(UNSET, name, "")
        /\ out' = <<>>
        /\ UNCHANGED inTransac
        /\ IF UnsetKeyError(xct, name)
           THEN /\ pc' = "crashed"
                /\ UNCHANGED <<xcts, valueCounts>>
                /\ Hist("FAULT")
           ELSE /\ xcts' = SetAt(xcts, i, UnsetXct(xct, name))
                /\ IF UnsetCountKeyError(xct, cnt, name)
                   THEN /\ pc' = "crashed"
                        /\ UNCHANGED valueCounts
                        /\ Hist("FAULT")
                   ELSE /\ valueCounts' = SetAt(valueCounts, i, UnsetCount(xct, cnt, name))
                        /\ UNCHANGED pc
                        /\ Hist(UNSET)

NumEqualTo(value) ==
  /\ pc = "running"
  /\ IF DispatchFaults(xcts) THEN Crash(Cmd(NUMEQUALTO, "", value)) ELSE
     LET i == CurrIndex(inTransac, xcts)
     IN /\ currXct' = i
        /\ currValCount' = i
        /\ line' = Cmd(NUMEQUALTO, "", value)
        /\ out' = NumEqualToOutput(valueCounts[i], value)
        /\ UNCHANGED <<xcts, valueCounts, inTransac, pc>>
        /\ Hist(NUMEQUALTO)

Begin ==
  /\ pc = "running"
  /\ Len(xcts) < MaxDepth
  /\ IF DispatchFaults(xcts) THEN Crash(Cmd(BEGIN, "", "")) ELSE
     LET i == CurrIndex(inTransac, xcts)
     IN /\ inTransac' = TRUE
        /\ xcts' = BeginXcts(xcts)
        /\ valueCounts' = BeginCounts(valueCounts)
        /\ currXct' = i
        /\ currValCount' = i
        /\ line' = Cmd(BEGIN, "", "")
        /\ out' = <<>>
        /\ UNCHANGED pc
        /\ Hist(BEGIN)

Rollback ==
  /\ pc = "running"
  /\ IF DispatchFaults(xcts) THEN Crash(Cmd(ROLLBACK, "", "")) ELSE
     LET i == CurrIndex(inTransac, xcts)
     IN /\ line' = Cmd(ROLLBACK, "", "")
        /\ out' = RollbackOutput(inTransac)
        /\ UNCHANGED pc
        /\ IF ~inTransac
           THEN /\ currXct' = i
                /\ currValCount' = i
                /\ UNCHANGED <<xcts, valueCounts, inTransac>>
           ELSE /\ xcts' = RollbackXcts(xcts)
                /\ valueCounts' = RollbackCounts(valueCounts)
                /\ inTransac' = IF NoMoreTransactions(xcts') THEN FALSE ELSE inTransac
                /\ currXct' = 0
                /\ currValCount' = 0
        /\ Hist(ROLLBACK)

Commit ==
  /\ pc = "running"
  /\ IF DispatchFaults(xcts) THEN Crash(Cmd(COMMIT, "", "")) ELSE
     LET i == CurrIndex(inTransac, xcts)
     IN /\ line' = Cmd(COMMIT, "", "")
        /\ out' = CommitOutput(inTransac)
        /\ inTransac' = FALSE
        /\ UNCHANGED pc
        /\ IF ~inTransac
           THEN /\ currXct' = i
                /\ currValCount' = i
                /\ UNCHANGED <<xcts, valueCounts>>
           ELSE /\ xcts' = CommitStack(xcts, i)
                /\ valueCounts' = CommitStack(valueCounts, i)
                /\ currXct' = 0
                /\ currValCount' = 0
        /\ Hist(COMMIT)

End ==
  /\ pc = "running"
  /\ IF DispatchFaults(xcts) THEN Crash(Cmd(END, "", "")) ELSE
     LET i == CurrIndex(inTransac, xcts)
     IN /\ currXct' = i
        /\ currValCount' = i
        /\ line' = Cmd(END, "", "")
        /\ out' = <<>>
        /\ pc' = "exited"
        /\ UNCHANGED <<xcts, valueCounts, inTransac>>
        /\ Hist(END)

Invalid ==
  /\ pc = "running"
  /\ IF DispatchFaults(xcts) THEN Crash(Cmd("NOP", "", "")) ELSE
     LET i == CurrIndex(inTransac, xcts)
     IN /\ currXct' = i
        /\ currValCount' = i
        /\ line' = Cmd("NOP", "", "")
        /\ out' = <<InvalidMsg>>
        /\ UNCHANGED <<xcts, valueCounts, inTransac, pc>>
        /\ Hist("NOP")

Next ==
  \/ \E name \in Keys, value \in Vals : Set(name, value)
  \/ \E name \in Keys : Get(name)
  \/ \E name \in Keys : Unset(name)
  \/ \E value \in Vals : NumEqualTo(value)
  \/ Begin
  \/ Rollback
  \/ Commit
  \/ End
  \/ Invalid

Spec == Init /\ [][Next]_vars

\* ------------------------------------------------------------ properties
\* the number of keys of a snapshot whose value is v
KeysHolding(xct, v) == Cardinality({k \in DOMAIN xct : xct[k] = v})

\* what GET k and NUMEQUALTO v would write, for every k and v, in state s
ViewOf(s) ==
  LET i == CurrIndex(s.inTransac, s.xcts)
  IN [get |-> [k \in Keys |-> GetOutput(s.xcts[i], k)],
      num |-> [v \in Vals |-> NumEqualToOutput(s.valueCounts[i], v)]]

\* C1: in every reachable state and for every value v, the number NUMEQUALTO v
\* writes is the number of keys of the current snapshot whose value is v.
CountInvariant ==
  xcts # <<>> =>
    LET i == CurrIndex(inTransac, xcts)
    IN \A v \in Vals :
         NumEqualToOutput(valueCounts[i], v) = <<Str(KeysHolding(xcts[i], v))>>

\* C2: after BEGIN, any SET and UNSET commands, then ROLLBACK, every GET k and
\* NUMEQUALTO v writes what it would have written just before the BEGIN.
RollbackRestoresExactly ==
  txn.status = "rolledback" => ViewOf(Snapshot) = ViewOf(txn.before)

RollbackRestoresWitness ==
  /\ txn.status = "rolledback"
  /\ txn.touched
  /\ line.op = ROLLBACK
  /\ ViewOf(pre) # ViewOf(Snapshot)
  /\ txn.before.xcts[1] # <<>>

\* C3: COMMIT with n >= 1 open transactions leaves exactly one layer in both
\* stacks, equal to the former top layer, so the GET and NUMEQUALTO outputs are
\* unchanged; no transaction stays open and a ROLLBACK issued next writes
\* NO TRANSACTION.
CommitFlattens ==
  (line.op = COMMIT /\ Len(pre.xcts) > 1) =>
    /\ Len(xcts) = 1
    /\ Len(valueCounts) = 1
    /\ xcts[1] = pre.xcts[Len(pre.xcts)]
    /\ valueCounts[1] = pre.valueCounts[Len(pre.valueCounts)]
    /\ ViewOf(Snapshot) = ViewOf(pre)
    /\ ~inTransac
    /\ RollbackOutput(inTransac) = <<NoTransactionMsg>>

CommitFlattensWitness ==
  /\ line.op = COMMIT
  /\ Len(pre.xcts) = 3
  /\ pre.xcts[1] # pre.xcts[2]
  /\ pre.xcts[2] # pre.xcts[3]
  /\ Len(xcts) = 1
  /\ xcts[1] = pre.xcts[3]

\* C4: the snapshot stack and the count stack always hold at least one layer:
\* the base layer survives every ROLLBACK.
BaseLayerNeverRemoved == Len(xcts) >= 1 /\ Len(valueCounts) >= 1

\* C5: the store is inside a transaction (inTransac) exactly when the snapshot
\* stack has more than one layer.
TransactionModeTracksDepth == inTransac <=> Len(xcts) > 1

\* C6: ROLLBACK with no transaction open (one layer) writes NO TRANSACTION and
\* leaves both stacks unchanged; with a transaction open it writes nothing.
RollbackNoTransaction ==
  (line.op = ROLLBACK /\ pre.xcts # <<>>) =>
    IF Len(pre.xcts) = 1
    THEN /\ out = <<NoTransactionMsg>>
         /\ xcts = pre.xcts
         /\ valueCounts = pre.valueCounts
    ELSE out = <<>>

\* C7: COMMIT with no transaction open (one layer) writes NO TRANSACTION and
\* leaves the store outside a transaction with both stacks unchanged; with a
\* transaction open it writes nothing.
CommitNoTransaction ==
  (line.op = COMMIT /\ pre.xcts # <<>>) =>
    IF Len(pre.xcts) = 1
    THEN /\ out = <<NoTransactionMsg>>
         /\ ~inTransac
         /\ xcts = pre.xcts
         /\ valueCounts = pre.valueCounts
    ELSE out = <<>>

\* C8: while no BEGIN has ever been performed, every ROLLBACK writes
\* NO TRANSACTION and leaves both stacks and the transaction mode unchanged,
\* however many ROLLBACKs follow one another.
RollbackWithoutBeginIsNoOp ==
  (line.op = ROLLBACK /\ ~begun) =>
    /\ out = <<NoTransactionMsg>>
    /\ pc = "running"
    /\ xcts = pre.xcts
    /\ valueCounts = pre.valueCounts
    /\ inTransac = pre.inTransac

RollbackWithoutBeginWitness ==
  /\ line.op = ROLLBACK
  /\ ~begun
  /\ noTxRollbacks = 2
  /\ xcts # <<EmptyDict>>

\* C9: after a well-nested run of BEGIN/ROLLBACK pairs both stacks have the
\* length and the layers they had before the run.
StackBalance ==
  (brRun.status = "running" /\ brRun.depth = 0) =>
    /\ xcts = brRun.before.xcts
    /\ valueCounts = brRun.before.valueCounts

StackBalanceWitness ==
  /\ brRun.status = "running"
  /\ brRun.depth = 0
  /\ brRun.pairs = 2
  /\ line.op = ROLLBACK
  /\ Len(xcts) = 2
  /\ xcts[1] # xcts[2]

\* C10: with a transaction open, SET and UNSET leave every layer below the top
\* one, snapshot and count index alike, unchanged.
LayerIsolation ==
  (line.op \in {SET, UNSET} /\ Len(pre.xcts) > 1) =>
    /\ Len(xcts) = Len(pre.xcts)
    /\ Len(valueCounts) = Len(pre.valueCounts)
    /\ \A j \in 1..(Len(pre.xcts) - 1) :
         /\ xcts[j] = pre.xcts[j]
         /\ valueCounts[j] = pre.valueCounts[j]

LayerIsolationWitness ==
  /\ line.op = UNSET
  /\ pc = "running"
  /\ Len(pre.xcts) = 3
  /\ xcts[3] # pre.xcts[3]
  /\ valueCounts[3] # pre.valueCounts[3]
  /\ xcts[2] # xcts[3]
  /\ xcts[1] # xcts[2]

\* the number a count index holds for v, 0 when it has no entry
CountOf(cnt, v) == IF v \in DOMAIN cnt THEN cnt[v] ELSE 0

\* the key holds a value (it is present and not None) in the snapshot
Holds(xct, k) == k \in DOMAIN xct /\ xct[k] # None

\* C11: when key k holds value v, UNSET k makes GET k write NULL, makes
\* NUMEQUALTO v write one less than before, and leaves what NUMEQUALTO writes
\* for every other value unchanged.
UnsetDecrementsCount ==
  (line.op = UNSET /\ pre.xcts # <<>>) =>
    LET i == CurrIndex(pre.inTransac, pre.xcts)
        k == line.name
    IN Holds(pre.xcts[i], k) =>
         LET v == pre.xcts[i][k]
             j == CurrIndex(inTransac, xcts)
         IN /\ pc = "running"
            /\ GetOutput(xcts[j], k) = <<"NULL">>
            /\ NumEqualToOutput(valueCounts[j], v)
                 = <<Str(CountOf(pre.valueCounts[i], v) - 1)>>
            /\ \A w \in Vals \ {v} :
                 NumEqualToOutput(valueCounts[j], w)
                   = NumEqualToOutput(pre.valueCounts[i], w)

UnsetDecrementsWitness ==
  /\ line.op = UNSET
  /\ pc = "running"
  /\ Len(xcts) = 2
  /\ Holds(pre.xcts[2], line.name)
  /\ CountOf(pre.valueCounts[2], pre.xcts[2][line.name]) = 2
  /\ CountOf(valueCounts[2], pre.xcts[2][line.name]) = 1
  /\ KeysHolding(xcts[2], pre.xcts[2][line.name]) = 1

\* C12: GET k writes the value last assigned to k as seen through the
\* rollbacks and commits performed so far, and writes NULL exactly when k is
\* absent from the current snapshot or was UNSET there.
GetWritesLastAssigned ==
  line.op = GET =>
    LET last == assigned[Len(assigned)][line.name]
    IN /\ out = IF last = None THEN <<"NULL">> ELSE <<last>>
       /\ pre.xcts # <<>> =>
            (out = <<"NULL">>
               <=> ~Holds(pre.xcts[CurrIndex(pre.inTransac, pre.xcts)], line.name))

\* C13: GET and NUMEQUALTO leave both stacks, every layer and the transaction
\* mode as they were.
QueriesAreReadOnly ==
  line.op \in {GET, NUMEQUALTO} =>
    /\ xcts = pre.xcts
    /\ valueCounts = pre.valueCounts
    /\ inTransac = pre.inTransac

QueriesAreReadOnlyWitness ==
  /\ line.op = GET
  /\ pc = "running"
  /\ out = <<"NULL">>
  /\ Len(pre.xcts) = 3
  /\ line.name \notin DOMAIN pre.xcts[3]
  /\ pre.xcts[3] # <<>>

\* C14: no command other than END faults: after any sequence of well-formed
\* commands the store is still running (or has exited on END).
NoErrorIsFatal == pc # "crashed"

\* C15: the count stack always has the same length as the snapshot stack.
StacksSynchronized == Len(valueCounts) = Len(xcts)

StacksSynchronizedWitness ==
  /\ line.op = ROLLBACK
  /\ Len(pre.xcts) = 3
  /\ Len(pre.valueCounts) = 3
  /\ Len(xcts) = 2
  /\ Len(valueCounts) = 2
  /\ begun

\* C16: BEGIN, in whatever state it is issued, lengthens both stacks by one,
\* the new top layer equals the former top layer, and every GET and NUMEQUALTO
\* writes the same after it as before it.
BeginPushesCopy ==
  line.op = BEGIN =>
    /\ Len(xcts) = Len(pre.xcts) + 1
    /\ Len(valueCounts) = Len(pre.valueCounts) + 1
    /\ xcts[Len(xcts)] = pre.xcts[Len(pre.xcts)]
    /\ valueCounts[Len(valueCounts)] = pre.valueCounts[Len(pre.valueCounts)]
    /\ ViewOf(Snapshot) = ViewOf(pre)

UnsetMissingKeyIsNoOp ==
  (line.op = UNSET /\ pre.xcts # <<>>) =>
    (line.name \notin DOMAIN pre.xcts[CurrIndex(pre.inTransac, pre.xcts)] =>
       /\ pc = "running"
       /\ out = <<>>
       /\ xcts = pre.xcts
       /\ valueCounts = pre.valueCounts)

\* C19: in every layer the count stored for a value (0 without an entry) is
\* at least the number of keys of that layer holding the value, hence never
\* negative.
CountsNeverUnderCount ==
  \A j \in 1..Len(xcts) : \A v \in Vals :
    /\ CountOf(valueCounts[j], v) >= KeysHolding(xcts[j], v)
    /\ CountOf(valueCounts[j], v) >= 0

CountsNeverUnderCountWitness ==
  /\ line.op = UNSET
  /\ pc = "running"
  /\ Len(xcts) = 2
  /\ \E v \in Vals :
       /\ v \in DOMAIN valueCounts[2]
       /\ valueCounts[2][v] = 0
       /\ CountOf(pre.valueCounts[2], v) = 1
  /\ \E v \in Vals :
       /\ CountOf(valueCounts[2], v) = 2
       /\ KeysHolding(xcts[2], v) = 1

====
